---- MODULE Spec2Model ----
(***************************************************************************)
(* http-body-io: a bounded tokio mpsc channel of byte chunks with a        *)
(* BodyWriter (std::io::Write and tokio AsyncWrite) on the sending end and *)
(* a BodyReader (http_body::Body and tokio AsyncRead) on the receiving     *)
(* end.                                                                    *)
(*                                                                         *)
(* The state is the channel (its queue, the two handles, the waker the     *)
(* receiver registered), the position of the caller of each handle (inside *)
(* the blocking retry loop, parked after a Pending poll, ...), the value   *)
(* each call returned last, and two history sequences: the chunks whose    *)
(* write returned Ok and the chunks handed to the consumer.                *)
(***************************************************************************)
EXTENDS Naturals, Sequences, FiniteSets, TLC

\* ------------------------------------------------------------------ bounds

\* Longest buffer a caller passes to write / poll_write.
MaxChunkLen == 1

\* Number of writes that may return Ok in one behaviour.
MaxWrites == 2

\* Largest remaining capacity of the ReadBuf a caller passes to poll_read.
MaxBuf == 1

\* The byte values callers write.
Byte == {0, 1}

\* -------------------------------------------------------------- the program

\* tokio::sync::mpsc::channel(1): the capacity the factory asks for.
Capacity == 1

\* Bytes: an immutable byte string of bounded length.
Bytes == UNION {[1..n -> Byte] : n \in 0..MaxChunkLen}

\* ReadBuf::remaining() of the buffers callers offer.
BufRemaining == 0..MaxBuf

VARIABLES
    selfWake,     \* the Pending arms call cx.waker().wake_by_ref() (body_reader.rs,
                  \* body_writer.rs) or do not (the adapters defined in lib.rs)
    queue,        \* the channel's list of chunks, oldest first
    writerAlive,  \* the BodyWriter (the only Sender) has not been dropped
    readerAlive,  \* the BodyReader (the Receiver) has not been dropped
    rxWaker,      \* the receiver holds a waker registered by a Pending recv
    wpc,          \* the writer's caller: "idle", "spin" (in write's loop), "pending"
    wbuf,         \* the buffer of the write call in progress
    wrWoken,      \* the task parked on a Pending poll_write has been woken
    wres,         \* what the last write / poll_write attempt gave
    wret,         \* the count the last Ok carried
    rpc,          \* the reader's caller: "idle", "pending", "panicked"
    rdWoken,      \* the task parked on a Pending poll_frame / poll_read has been woken
    rres,         \* what the last poll_frame / poll_read gave
    rdata,        \* the frame's data, or the bytes put into the caller's buffer
    rcap,         \* remaining capacity of the buffer the last poll_read was given
    written,      \* history: the chunks whose write returned Ok, in order
    delivered     \* history: the chunks handed to the consumer, in order

vars == <<selfWake, queue, writerAlive, readerAlive, rxWaker, wpc, wbuf, wrWoken,
          wres, wret, rpc, rdWoken, rres, rdata, rcap, written, delivered>>

writerVars == <<wpc, wbuf, wrWoken, wres, wret, written>>
readerVars == <<rpc, rres, rdata, rcap, delivered>>

\* channel(): a connected pair over an empty queue, both handles alive.
Init ==
    /\ selfWake \in BOOLEAN
    /\ queue = <<>>
    /\ writerAlive = TRUE
    /\ readerAlive = TRUE
    /\ rxWaker = FALSE
    /\ wpc = "idle"
    /\ wbuf = <<>>
    /\ wrWoken = FALSE
    /\ wres = "none"
    /\ wret = 0
    /\ rpc = "idle"
    /\ rdWoken = FALSE
    /\ rres = "none"
    /\ rdata = <<>>
    /\ rcap = 0
    /\ written = <<>>
    /\ delivered = <<>>

\* ----------------------------------------------------- the channel's calls

\* try_send without the check for free capacity.
try_send_NoCapacityCheck ==
    IF ~readerAlive THEN "closed" ELSE "ok"

\* try_send looking at the capacity before it looks at the closed flag.
try_send_FullBeforeClosed ==
    IF Len(queue) >= Capacity THEN "full"
    ELSE IF ~readerAlive THEN "closed"
    ELSE "ok"

\* Sender::try_send: Closed once the receiver is gone (checked first), Full
\* with no free permit, Ok otherwise.
try_send ==
    IF ~readerAlive THEN "closed"
    ELSE IF Len(queue) >= Capacity THEN "full"
    ELSE "ok"

\* send with its capacity test off by one: it waits with one slot still free.
send_WaitsWithOneSlotFree ==
    IF ~readerAlive THEN "err"
    ELSE IF Len(queue) + 1 >= Capacity THEN "pending"
    ELSE "ok"

\* send looking at the capacity before it looks at the closed flag.
send_FullBeforeClosed ==
    IF Len(queue) >= Capacity THEN "pending"
    ELSE IF ~readerAlive THEN "err"
    ELSE "ok"

\* One poll of the future of Sender::send: Err once the receiver is gone,
\* Pending with no free permit, Ok otherwise.
send ==
    IF ~readerAlive THEN "err"
    ELSE IF Len(queue) >= Capacity THEN "pending"
    ELSE "ok"

\* recv reporting None on an empty queue without looking at the sender.
recv_NoneWhenEmpty ==
    IF queue # <<>> THEN "some" ELSE "none"

\* recv taking a zero-length chunk at the head of the queue for the end.
recv_EmptyChunkIsNone ==
    IF queue # <<>> /\ Head(queue) # <<>> THEN "some"
    ELSE IF queue # <<>> \/ ~writerAlive THEN "none"
    ELSE "pending"

\* One poll of Receiver::poll_recv / of the future of Receiver::recv: the
\* oldest chunk, None once the queue is empty and the sender is gone,
\* Pending otherwise.
recv ==
    IF queue # <<>> THEN "some"
    ELSE IF ~writerAlive THEN "none"
    ELSE "pending"

\* A send that accepts all but the last byte of the buffer.
Push_DropsLastByte(q, bytes) ==
    Append(q, SubSeq(bytes, 1, IF Len(bytes) = 0 THEN 0 ELSE Len(bytes) - 1))

\* The queue after a send of `bytes`.
Push(q, bytes) == Append(q, bytes)

\* A recv that hands out the oldest chunk and leaves it queued.
Pop_KeepsChunk(q) == q

\* The queue after a recv took its oldest chunk.
Pop(q) == Tail(q)

\* The channel wakes the waker the receiver registered (a chunk was pushed,
\* or the last sender was dropped) and forgets it.
WakeRx ==
    /\ rdWoken' = (rdWoken \/ (rxWaker /\ rpc = "pending"))
    /\ rxWaker' = FALSE

\* ------------------------------------------------------------- BodyWriter

\* An iteration of write's loop whose try_send leaves the chunk in the
\* queue although it reports Full.
WriteAttempt_FullLeavesChunk(bytes) ==
    /\ wbuf' = bytes
    /\ wrWoken' = FALSE
    /\ CASE try_send = "ok" ->
              /\ queue' = Push(queue, bytes)
              /\ WakeRx
              /\ wpc' = "idle"
              /\ wres' = "ok"
              /\ wret' = Len(bytes)
              /\ written' = Append(written, bytes)
         [] try_send = "full" ->
              /\ queue' = Push(queue, bytes)
              /\ wpc' = "spin"
              /\ wres' = "full"
              /\ wret' = 0
              /\ UNCHANGED <<rxWaker, rdWoken, written>>
         [] try_send = "closed" ->
              /\ wpc' = "idle"
              /\ wres' = "broken_pipe"
              /\ wret' = 0
              /\ UNCHANGED <<queue, rxWaker, rdWoken, written>>
    /\ UNCHANGED <<selfWake, writerAlive, readerAlive>>
    /\ UNCHANGED readerVars

\* One iteration of write's loop on the chunk `bytes`.
WriteAttempt(bytes) ==
    /\ wbuf' = bytes
    /\ wrWoken' = FALSE
    /\ CASE try_send = "ok" ->
              /\ queue' = Push(queue, bytes)
              /\ WakeRx
              /\ wpc' = "idle"
              /\ wres' = "ok"
              /\ wret' = Len(bytes)
              /\ written' = Append(written, bytes)
         [] try_send = "full" ->
              /\ wpc' = "spin"
              /\ wres' = "full"
              /\ wret' = 0
              /\ UNCHANGED <<queue, rxWaker, rdWoken, written>>
         [] try_send = "closed" ->
              /\ wpc' = "idle"
              /\ wres' = "broken_pipe"
              /\ wret' = 0
              /\ UNCHANGED <<queue, rxWaker, rdWoken, written>>
    /\ UNCHANGED <<selfWake, writerAlive, readerAlive>>
    /\ UNCHANGED readerVars

\* <BodyWriter as std::io::Write>::write(buf): the call and its first try_send.
write(buf) ==
    /\ writerAlive
    /\ wpc = "idle"
    /\ Len(written) < MaxWrites
    /\ WriteAttempt(buf)

\* write's loop after Full and yield_now: the next try_send of the same chunk.
write_retry ==
    /\ writerAlive
    /\ wpc = "spin"
    /\ WriteAttempt(wbuf)

\* <BodyWriter as AsyncWrite>::poll_write(cx, buf): a fresh send future is
\* polled once and dropped, which takes its waiter off the channel again.
poll_write(buf) ==
    /\ writerAlive
    /\ \/ wpc = "idle" /\ Len(written) < MaxWrites
       \/ wpc = "pending" /\ wrWoken /\ buf = wbuf
    /\ wbuf' = buf
    /\ CASE send = "ok" ->
              /\ queue' = Push(queue, buf)
              /\ WakeRx
              /\ wpc' = "idle"
              /\ wrWoken' = FALSE
              /\ wres' = "ok"
              /\ wret' = Len(buf)
              /\ written' = Append(written, buf)
         [] send = "pending" ->
              /\ wpc' = "pending"
              /\ wrWoken' = selfWake
              /\ wres' = "pending"
              /\ wret' = 0
              /\ UNCHANGED <<queue, rxWaker, rdWoken, written>>
         [] send = "err" ->
              /\ wpc' = "idle"
              /\ wrWoken' = FALSE
              /\ wres' = "broken_pipe"
              /\ wret' = 0
              /\ UNCHANGED <<queue, rxWaker, rdWoken, written>>
    /\ UNCHANGED <<selfWake, writerAlive, readerAlive>>
    /\ UNCHANGED readerVars

\* What flush, poll_flush and poll_shutdown do: return Ok(()) and touch
\* nothing of the channel.
WriterNoOp(result) ==
    /\ writerAlive
    /\ wpc = "idle"
    /\ wres' = result
    /\ wret' = 0
    /\ UNCHANGED <<selfWake, queue, writerAlive, readerAlive, rxWaker, rdWoken>>
    /\ UNCHANGED <<wpc, wbuf, wrWoken, written>>
    /\ UNCHANGED readerVars

\* <BodyWriter as std::io::Write>::flush.
flush == WriterNoOp("flush_ok")

\* <BodyWriter as AsyncWrite>::poll_flush.
poll_flush == WriterNoOp("flush_ok")

\* A poll_shutdown that closes the sending side, as dropping the writer does.
poll_shutdown_ClosesChannel ==
    /\ writerAlive
    /\ wpc = "idle"
    /\ wres' = "shutdown_ok"
    /\ wret' = 0
    /\ writerAlive' = FALSE
    /\ WakeRx
    /\ UNCHANGED <<selfWake, queue, readerAlive>>
    /\ UNCHANGED <<wpc, wbuf, wrWoken, written>>
    /\ UNCHANGED readerVars

\* <BodyWriter as AsyncWrite>::poll_shutdown.
poll_shutdown == WriterNoOp("shutdown_ok")

\* drop(BodyWriter) that closes the channel and wakes nobody.
drop_writer_NoWake ==
    /\ writerAlive
    /\ wpc \in {"idle", "pending"}
    /\ writerAlive' = FALSE
    /\ wpc' = "idle"
    /\ wrWoken' = FALSE
    /\ UNCHANGED <<selfWake, queue, readerAlive, wbuf, wres, wret, written>>
    /\ UNCHANGED <<rxWaker, rdWoken>>
    /\ UNCHANGED readerVars

\* drop(BodyWriter): the last Sender goes, the channel closes on the sending
\* side and wakes the receiver. A task parked in poll_write may be dropped
\* with its writer; a thread inside write holds the writer borrowed.
drop_writer ==
    /\ writerAlive
    /\ wpc \in {"idle", "pending"}
    /\ writerAlive' = FALSE
    /\ wpc' = "idle"
    /\ wrWoken' = FALSE
    /\ WakeRx
    /\ UNCHANGED <<selfWake, queue, readerAlive, wbuf, wres, wret, written>>
    /\ UNCHANGED readerVars

\* ------------------------------------------------------------- BodyReader

\* The reader's caller may poll: it is running, or it was parked and woken.
ReaderRuns ==
    /\ readerAlive
    /\ \/ rpc = "idle"
       \/ rpc = "pending" /\ rdWoken

\* The Pending arm of poll_frame / poll_read: the receiver keeps the task's
\* waker; with wake_by_ref the task is woken at once.
ReaderPending(result) ==
    /\ rpc' = "pending"
    /\ rdWoken' = selfWake
    /\ rxWaker' = TRUE
    /\ rres' = result
    /\ rdata' = <<>>
    /\ UNCHANGED <<queue, delivered>>

\* <BodyReader as http_body::Body>::poll_frame(cx).
poll_frame ==
    /\ ReaderRuns
    /\ rcap' = 0
    /\ CASE recv = "some" ->
              /\ queue' = Pop(queue)
              /\ rpc' = "idle"
              /\ rdWoken' = FALSE
              /\ rres' = "frame"
              /\ rdata' = Head(queue)
              /\ delivered' = Append(delivered, Head(queue))
              /\ UNCHANGED rxWaker
         [] recv = "none" ->
              /\ rpc' = "idle"
              /\ rdWoken' = FALSE
              /\ rres' = "eos"
              /\ rdata' = <<>>
              /\ UNCHANGED <<queue, delivered, rxWaker>>
         [] recv = "pending" ->
              ReaderPending("frame_pending")
    /\ UNCHANGED <<selfWake, writerAlive, readerAlive>>
    /\ UNCHANGED writerVars

\* <BodyReader as AsyncRead>::poll_read(cx, buf) with buf.remaining() = remaining:
\* ReadBuf::put_slice panics when the chunk is longer than what remains.
poll_read(remaining) ==
    /\ ReaderRuns
    /\ rcap' = remaining
    /\ CASE recv = "some" /\ Len(Head(queue)) <= remaining ->
              /\ queue' = Pop(queue)
              /\ rpc' = "idle"
              /\ rdWoken' = FALSE
              /\ rres' = "read"
              /\ rdata' = Head(queue)
              /\ delivered' = Append(delivered, Head(queue))
              /\ UNCHANGED rxWaker
         [] recv = "some" /\ Len(Head(queue)) > remaining ->
              /\ queue' = Pop(queue)
              /\ rpc' = "panicked"
              /\ rdWoken' = FALSE
              /\ rres' = "panic"
              /\ rdata' = <<>>
              /\ UNCHANGED <<delivered, rxWaker>>
         [] recv = "none" ->
              /\ rpc' = "idle"
              /\ rdWoken' = FALSE
              /\ rres' = "read"
              /\ rdata' = <<>>
              /\ UNCHANGED <<queue, delivered, rxWaker>>
         [] recv = "pending" ->
              ReaderPending("read_pending")
    /\ UNCHANGED <<selfWake, writerAlive, readerAlive>>
    /\ UNCHANGED writerVars

\* drop(BodyReader): the Receiver goes and the channel closes for the sender.
\* No send future outlives the poll_write that made it, so no sender is
\* woken. The chunks still queued are released with the channel.
drop_reader ==
    /\ readerAlive
    /\ readerAlive' = FALSE
    /\ rdWoken' = FALSE
    /\ rxWaker' = FALSE
    /\ UNCHANGED <<selfWake, queue, writerAlive>>
    /\ UNCHANGED writerVars
    /\ UNCHANGED readerVars

\* ------------------------------------------------------ the specification

Next ==
    \/ \E buf \in Bytes : write(buf)
    \/ write_retry
    \/ \E buf \in Bytes : poll_write(buf)
    \/ flush
    \/ poll_flush
    \/ poll_shutdown
    \/ drop_writer
    \/ poll_frame
    \/ \E remaining \in BufRemaining : poll_read(remaining)
    \/ drop_reader

Spec == Init /\ [][Next]_vars

\* The executor polls a task that stays runnable: a consumer draining the
\* frame sequence gets its poll_frame whenever it is running or woken.
FairSpec == Spec /\ WF_vars(poll_frame)

\* ------------------------------------------------- the end-to-end scenario

\* The producer of the tests: it drops the writer when its writes are over
\* (it does not give up a write that is still pending).
producer_drop ==
    /\ wpc = "idle"
    /\ drop_writer

\* The consumer of the tests: `while let Some(..) = stream.next().await`, a
\* poll_frame at a time until the frame sequence has ended.
consumer_pull ==
    /\ rres # "eos"
    /\ poll_frame

\* Both sides are through: the writer dropped, the consumer at the end.
PipeDone == ~writerAlive /\ rres = "eos"

PipeNext ==
    \/ \E buf \in Bytes : write(buf)
    \/ write_retry
    \/ \E buf \in Bytes : poll_write(buf)
    \/ producer_drop
    \/ consumer_pull

\* A producer that writes (through either contract) and drops the writer,
\* with a consumer that drains the frame sequence.
PipeSpec == Init /\ [][PipeNext]_vars


\* ------------------------------------------------------------- the claims

\* s is an initial segment of t.
IsPrefix(s, t) ==
    /\ Len(s) <= Len(t)
    /\ \A i \in 1..Len(s) : s[i] = t[i]

\* A step of the blocking write on the chunk b: the call, or an iteration
\* of its loop.
BlockingAttempt(b) == write(b) \/ (write_retry /\ b = wbuf)

\* A step that attempts a write of the chunk b through either contract.
AnyWriteAttempt(b) == BlockingAttempt(b) \/ poll_write(b)

\* C1. Order preservation: whatever the mix of write and poll_write and the
\* interleaving with the consumer, the chunks delivered by poll_frame and
\* poll_read are an initial segment of the chunks written, in that order.
C1_OrderPreservation == IsPrefix(delivered, written)

\* Two different chunks delivered in the order written, the second by poll_read.
C1_Witness ==
    /\ Len(delivered) = 2
    /\ delivered[1] # delivered[2]
    /\ rres = "read"

\* C2. Graceful close: poll_frame reports the end of the stream only with
\* the writer dropped and the queue empty, and by then the consumer has been
\* handed exactly the chunks written, each once, in order.
C2_GracefulClose ==
    rres = "eos" => (~writerAlive /\ queue = <<>> /\ delivered = written)

\* The end of the stream after two chunks.
C2_Witness == rres = "eos" /\ Len(written) = 2 /\ written[1] # written[2]

\* C3. Termination of the frame sequence: once the writer is dropped, a
\* consumer whose poll_frame is scheduled fairly reaches the end of the
\* stream (unless the reader itself is dropped, or died in poll_read).
C3_FramesTerminate ==
    (~writerAlive) ~> (rres = "eos" \/ ~readerAlive \/ rpc = "panicked")

\* The end of the stream reached, after a frame, by the adapters that do not
\* wake themselves.
C3_Witness == rres = "eos" /\ ~selfWake /\ delivered # <<>> /\ readerAlive

\* C4. Backpressure bound: the queue never holds more than Capacity chunks,
\* and no write returns Ok in a step that starts with Capacity chunks queued:
\* a dequeue (or the reader's drop, which never lets it succeed) comes first.
C4_BackpressureBound ==
    /\ [](Len(queue) <= Capacity)
    /\ [][Len(queue) >= Capacity => written' = written]_vars

\* A write of either kind attempted on a full queue, still waiting.
C4_Witness ==
    /\ Len(queue) = Capacity
    /\ wres \in {"full", "pending"}
    /\ wpc \in {"spin", "pending"}
    /\ readerAlive

\* C5. Broken pipe propagation: with the reader dropped, every attempt of
\* write, of its retry loop and of poll_write returns BrokenPipe at once,
\* leaves the caller neither spinning nor pending, and enqueues nothing.
C5_BrokenPipe ==
    [][\A b \in Bytes :
         (~readerAlive /\ AnyWriteAttempt(b)) =>
             /\ wres' = "broken_pipe"
             /\ wpc' = "idle"
             /\ queue' = queue
             /\ written' = written]_vars

\* A write refused after the reader was dropped with a chunk still queued.
C5_Witness ==
    /\ ~readerAlive
    /\ wres = "broken_pipe"
    /\ Len(written) = 1
    /\ queue # <<>>

\* C6. Suspending write liveness, as what a finite run shows of it: when the
\* consumer dequeues a chunk while a task is parked on a Pending poll_write,
\* that task is woken.
C6_PendingWriterWokenByDequeue ==
    [][(wpc = "pending" /\ Len(queue') < Len(queue)) => wrWoken']_vars

\* C7. Blocking write retry loop: each try_send of the loop returns
\* BrokenPipe if the reader is dropped (also with the queue full), Ok with
\* the whole chunk enqueued if there is free capacity, and otherwise yields
\* and stays in the loop, which is left for no other reason.
C7_BlockingRetryLoop ==
    [][\A b \in Bytes :
         BlockingAttempt(b) =>
             /\ ~readerAlive =>
                  wres' = "broken_pipe" /\ wpc' = "idle" /\ written' = written
             /\ (readerAlive /\ Len(queue) < Capacity) =>
                  /\ wres' = "ok"
                  /\ wret' = Len(b)
                  /\ wpc' = "idle"
                  /\ queue' = Append(queue, b)
                  /\ written' = Append(written, b)
             /\ (readerAlive /\ Len(queue) >= Capacity) =>
                  wpc' = "spin" /\ queue' = queue /\ written' = written]_vars

\* The loop ended with BrokenPipe on a queue that is still full.
C7_Witness ==
    /\ wres = "broken_pipe"
    /\ wpc = "idle"
    /\ Len(queue) = Capacity
    /\ ~readerAlive
    /\ written # <<>>
    /\ wbuf # written[Len(written)]

\* C8. Suspending read into a caller buffer: poll_read never aborts because
\* of the size of the chunk it dequeued.
C8_PollReadNeverAborts == rres # "panic"

\* C9. Zero count means end of stream: poll_read leaves a buffer that had
\* room with nothing put into it only when the writer is dropped and the
\* queue is empty.
C9_ZeroCountOnlyAtEos ==
    (rres = "read" /\ rcap > 0 /\ Len(rdata) = 0) =>
        (~writerAlive /\ queue = <<>>)

\* C10. Zero-length chunk passthrough: a write of an empty buffer that
\* returns Ok enqueues exactly one zero-length chunk (and reports 0 bytes),
\* and poll_frame on a queue headed by a zero-length chunk yields a data
\* frame of no bytes, removes just that chunk and does not report the end.
C10_ZeroLengthPassthrough ==
    [][/\ (AnyWriteAttempt(<<>>) /\ wres' = "ok") =>
             queue' = Append(queue, <<>>) /\ wret' = 0
       /\ (poll_frame /\ queue # <<>> /\ Head(queue) = <<>>) =>
             /\ rres' = "frame"
             /\ rdata' = <<>>
             /\ delivered' = Append(delivered, <<>>)
             /\ queue' = Tail(queue)]_vars

\* A zero-length frame delivered, and the chunk written after it delivered too.
C10_Witness ==
    /\ Len(delivered) = 2
    /\ delivered[1] = <<>>
    /\ delivered[2] # <<>>
    /\ rres = "frame"
    /\ writerAlive

\* C11. Whole-chunk acceptance, one frame per chunk: a write of b that
\* returns Ok returns Len(b) and enqueues the one chunk b; poll_frame on a
\* non-empty queue yields one frame holding the oldest chunk unmodified and
\* removes just that chunk; frames never outnumber the writes that returned Ok.
C11_WholeChunkOneFrame ==
    /\ [](Len(delivered) <= Len(written))
    /\ [][/\ \A b \in Bytes :
               (AnyWriteAttempt(b) /\ wres' = "ok") =>
                   /\ wret' = Len(b)
                   /\ queue' = Append(queue, b)
                   /\ written' = Append(written, b)
          /\ (poll_frame /\ queue # <<>>) =>
               /\ rres' = "frame"
               /\ rdata' = Head(queue)
               /\ delivered' = Append(delivered, Head(queue))
               /\ queue' = Tail(queue)]_vars

\* A one-byte chunk accepted whole and delivered as one frame.
C11_Witness ==
    /\ wres = "ok"
    /\ wret = 1
    /\ rres = "frame"
    /\ rdata = written[1]
    /\ Len(rdata) = 1
    /\ Len(written) = 1
    /\ delivered = written

\* The concatenation of the chunks of a sequence.
RECURSIVE Flatten(_)
Flatten(chunks) ==
    IF chunks = <<>> THEN <<>> ELSE Head(chunks) \o Flatten(Tail(chunks))

\* C12. No deadlock end to end: in the producer/consumer scenario, as long
\* as the two sides are not both through one of them can take a step, and
\* when they are through the payloads delivered concatenate to the buffers
\* written.
C12_EndToEndNoDeadlock ==
    /\ PipeDone \/ ENABLED PipeNext
    /\ PipeDone => Flatten(delivered) = Flatten(written)

\* A step of the reader: a poll_frame, or a poll_read into some buffer.
AnyReadPoll == poll_frame \/ \E remaining \in BufRemaining : poll_read(remaining)

\* C13. Suspension points are exact: with the reader alive a write attempt is
\* accepted at once if the queue holds fewer than Capacity chunks and waits
\* (Full, Pending) if it holds Capacity, and it waits in no other state; a
\* read poll returns Pending if the queue is empty and the writer alive, and
\* in no other state.
C13_SuspensionPointsExact ==
    [][/\ \A b \in Bytes :
            AnyWriteAttempt(b) =>
                /\ (readerAlive /\ Len(queue) < Capacity) => wres' = "ok"
                /\ (readerAlive /\ Len(queue) >= Capacity) =>
                       wres' \in {"full", "pending"}
                /\ wres' \in {"full", "pending"} =>
                       (Len(queue) = Capacity /\ readerAlive)
       /\ AnyReadPoll =>
            (rres' \in {"frame_pending", "read_pending"}
                <=> (queue = <<>> /\ writerAlive))]_vars

\* A reader suspended on the empty queue it has just emptied, beside a
\* writer that was made to wait while the queue was full.
C13_Witness ==
    /\ rres = "read_pending"
    /\ rpc = "pending"
    /\ queue = <<>>
    /\ writerAlive
    /\ wres = "pending"
    /\ Len(delivered) = 1

\* What a write attempt told its caller, with the two ways of being made to
\* wait (Full and another iteration, Pending) taken as one.
ResultClass(r) == IF r \in {"full", "pending"} THEN "wait" ELSE r

\* The same, of what the channel told the adapter.
ChannelClass(r) ==
    CASE r \in {"full", "pending"} -> "wait"
      [] r \in {"closed", "err"} -> "broken_pipe"
      [] OTHER -> r

\* write(b) can end with this result, queue, history and count.
BlockingGives(b, c, q, w, n) ==
    ENABLED (/\ write(b)
             /\ ResultClass(wres') = c
             /\ queue' = q
             /\ written' = w
             /\ wret' = n)

\* poll_write(b) can end with this result, queue, history and count.
SuspendingGives(b, c, q, w, n) ==
    ENABLED (/\ poll_write(b)
             /\ ResultClass(wres') = c
             /\ queue' = q
             /\ written' = w
             /\ wret' = n)

\* C14. Blocking and suspending write are equivalent: in every state the
\* channel answers try_send and send alike (accepted, made to wait, broken
\* pipe), and a caller about to write b gets from write(b) and from
\* poll_write(b) the same result, count, queue and history.
C14_WriteContractsEquivalent ==
    /\ ChannelClass(try_send) = ChannelClass(send)
    /\ (writerAlive /\ wpc = "idle" /\ Len(written) < MaxWrites) =>
         \A b \in Bytes :
           \A c \in {"ok", "wait", "broken_pipe"} :
             \A q \in {queue, Append(queue, b)} :
               \A w \in {written, Append(written, b)} :
                 \A n \in 0..MaxChunkLen :
                   BlockingGives(b, c, q, w, n) <=> SuspendingGives(b, c, q, w, n)

\* A caller free to write through either contract after both closure and
\* capacity came into play: the reader is gone, the queue is still full and
\* the last attempt was refused.
C14_Witness ==
    /\ writerAlive
    /\ wpc = "idle"
    /\ ~readerAlive
    /\ Len(queue) = Capacity
    /\ wres = "broken_pipe"
    /\ Len(written) < MaxWrites
    /\ rres = "frame_pending"

\* C15. Flush and shutdown are no-ops and only drop closes: flush, poll_flush
\* and poll_shutdown return Ok and leave the queue, both handles, the wakers
\* and the histories as they were; after poll_shutdown, until the writer is
\* dropped, the reader's recv does not report the end and a write is
\* accepted if the channel has room.
C15_FlushShutdownNoOps ==
    /\ [][/\ (flush \/ poll_flush) => wres' = "flush_ok"
          /\ poll_shutdown => wres' = "shutdown_ok"
          /\ (flush \/ poll_flush \/ poll_shutdown) =>
               UNCHANGED <<queue, writerAlive, readerAlive, rxWaker, rdWoken,
                           wpc, written, delivered>>]_vars
    /\ []((wres = "shutdown_ok" /\ writerAlive) =>
            /\ recv # "none"
            /\ (readerAlive /\ Len(queue) < Capacity /\ Len(written) < MaxWrites) =>
                 \A b \in Bytes :
                   /\ ENABLED (write(b) /\ wres' = "ok")
                   /\ ENABLED (poll_write(b) /\ wres' = "ok"))

\* poll_shutdown has returned with a chunk written, delivered and nothing
\* queued: the consumer, polled now, is not told the stream has ended.
C15_Witness ==
    /\ wres = "shutdown_ok"
    /\ writerAlive
    /\ queue = <<>>
    /\ Len(delivered) = 1
    /\ rres = "frame_pending"
    /\ readerAlive

\* C16. Capacity is the constructor's parameter: a bridge built for capacity
\* 10, as the end-to-end scenario builds it, makes no write wait while fewer
\* than ten chunks have been written and none has been dequeued.
C16_RequestedCapacityHonoured ==
    (readerAlive /\ Len(queue) = Len(written) /\ Len(written) < 10) =>
        wres \notin {"full", "pending"}

\* C17. No busy-waiting on the read side: a consumer task parked by a
\* Pending poll_frame / poll_read is woken only once a chunk has been
\* enqueued or the writer dropped, not while the channel is still empty and
\* open.
C17_ReaderWokenOnlyByChannel ==
    (rpc = "pending" /\ rdWoken) => (queue # <<>> \/ ~writerAlive)

\* The stream has ended: the writer is dropped and nothing is queued.
StreamEnded == ~writerAlive /\ queue = <<>>

\* C18. End-of-stream is terminal and reads never error: poll_frame reports
\* the end only on an ended stream; an ended stream stays ended, hands out no
\* further chunk, and answers every later poll_frame with the end again and
\* every later poll_read with a read of nothing; no poll of the reader ever
\* gives an error.
C18_EndOfStreamTerminal ==
    /\ [](rres = "eos" => StreamEnded)
    /\ [](rres \in {"none", "frame", "eos", "frame_pending",
                    "read", "read_pending", "panic"})
    /\ [][StreamEnded =>
            /\ StreamEnded'
            /\ delivered' = delivered
            /\ poll_frame => rres' = "eos"
            /\ (\E remaining \in BufRemaining : poll_read(remaining)) =>
                 (rres' = "read" /\ rdata' = <<>>)]_vars

\* The end reported to a live reader after two chunks were written and
\* both were handed out.
C18_Witness ==
    /\ rres = "eos"
    /\ Len(delivered) = 2
    /\ delivered = written
    /\ readerAlive

\* C19. A poll that returns Pending has no effect on the queue: a write
\* attempt that ends Full or Pending enqueues nothing, a read poll that ends
\* Pending dequeues nothing, the attempt that completes a retried or
\* re-polled write enqueues its chunk once, and so the chunks handed out
\* followed by the chunks queued are exactly the chunks written (less the one
\* chunk a panicking poll_read took with it).
C19_PendingHasNoEffect ==
    /\ [][/\ \A b \in Bytes :
               (AnyWriteAttempt(b) /\ wres' \in {"full", "pending"}) =>
                   (queue' = queue /\ written' = written)
          /\ (AnyReadPoll /\ rres' \in {"frame_pending", "read_pending"}) =>
               (queue' = queue /\ delivered' = delivered)
          /\ (wpc \in {"spin", "pending"} /\ AnyWriteAttempt(wbuf) /\ wres' = "ok") =>
               (queue' = Append(queue, wbuf) /\ written' = Append(written, wbuf))]_vars
    /\ [](rpc # "panicked" => delivered \o queue = written)
    /\ [](rpc = "panicked" => Len(delivered) + Len(queue) + 1 = Len(written))

\* A blocking write retrying on the full queue while the reader's last poll
\* on the then empty queue returned Pending.
C19_Witness ==
    /\ wpc = "spin"
    /\ wres = "full"
    /\ Len(queue) = Capacity
    /\ rres = "read_pending"
    /\ rpc = "pending"

====
